---- MODULE Spec2Model ----
(***************************************************************************)
(* Request-body transformation pipeline of the reverse proxy (main.go):    *)
(* pooled buffers, the byte-level key scanner, the fast splice injector,   *)
(* the tree (sonic AST) rewrite of instructions/input, the cache-key       *)
(* derivation and the hand-off of the buffer to the outgoing request.      *)
(*                                                                         *)
(* A byte is a one-character string; a body is a sequence of bytes.        *)
(***************************************************************************)
EXTENDS Integers, Sequences, FiniteSets, TLC

(***************************************************************************)
(* Bytes and byte strings                                                  *)
(***************************************************************************)
QT == "\""
BS == "\\"

Digits == {"0", "1", "2", "3", "4", "5", "6", "7", "8", "9"}

\* main.go:40-42, the literals the scanner looks for (quotes included).
kInstrKey ==
  <<QT, "i", "n", "s", "t", "r", "u", "c", "t", "i", "o", "n", "s", QT>>
kPromptCacheKey ==
  <<QT, "p", "r", "o", "m", "p", "t", "_", "c", "a", "c", "h", "e", "_",
    "k", "e", "y", QT>>
kPrevRespIDKey ==
  <<QT, "p", "r", "e", "v", "i", "o", "u", "s", "_", "r", "e", "s", "p",
    "o", "n", "s", "e", "_", "i", "d", QT>>

\* The same names without the quotes: the keys handed to root.Get/Set/Unset.
Unq(lit) == SubSeq(lit, 2, Len(lit) - 1)
nInstructions == Unq(kInstrKey)
nPromptCacheKey == Unq(kPromptCacheKey)
nInput == <<"i", "n", "p", "u", "t">>
nRole == <<"r", "o", "l", "e">>
nContent == <<"c", "o", "n", "t", "e", "n", "t">>
sDeveloper == <<"d", "e", "v", "e", "l", "o", "p", "e", "r">>
sUser == <<"u", "s", "e", "r">>

\* The text of the pieces ss[lo..hi], one after the other.
RECURSIVE Flat(_, _, _)
Flat(ss, lo, hi) ==
  CASE lo > hi -> <<>>
    [] lo = hi -> ss[lo]
    [] OTHER -> Flat(ss, lo, (lo + hi) \div 2)
                \o Flat(ss, (lo + hi) \div 2 + 1, hi)

\* main.go:83
isWS(c) == c = " " \/ c = "\t" \/ c = "\n" \/ c = "\r"

\* bytes.Index(bs[from:], key) + from, as a 1-based position; 0 when absent.
\* An empty key is found at once, at from.
KeyAt(bs, key, j) ==
  key = <<>> \/ (bs[j] = key[1] /\ SubSeq(bs, j, j + Len(key) - 1) = key)
IndexFrom(bs, key, from) ==
  IF \E j \in from..(Len(bs) - Len(key) + 1) : KeyAt(bs, key, j)
    THEN CHOOSE j \in from..(Len(bs) - Len(key) + 1) :
           KeyAt(bs, key, j) /\ \A q \in from..(j - 1) : ~KeyAt(bs, key, q)
    ELSE 0

\* First position >= pos holding a non-whitespace byte (Len(bs)+1 at the end).
SkipWS(bs, pos) ==
  IF pos > Len(bs) THEN pos
  ELSE CHOOSE j \in pos..(Len(bs) + 1) :
         /\ j > Len(bs) \/ ~isWS(bs[j])
         /\ \A q \in pos..(j - 1) : isWS(bs[q])

\* main.go:86-101.  off is the 1-based start of the search window.
\* at: where the key was found (0: nowhere); pos: the first byte after it
\* that is no whitespace.  The outcome is "true", "false", or "panic" when
\* the slice bs[off:] of main.go:88 starts beyond the end of bs.
RECURSIVE hasJSONKeyFrom(_, _, _)
\* (mutant) the search goes on after the whole occurrence.
hasJSONKeySkipsOccurrence(bs, key, at, pos) ==
  IF pos <= Len(bs) /\ bs[pos] = ":" THEN "true"
  ELSE hasJSONKeyFrom(bs, key, at + (IF key = <<>> THEN 1 ELSE Len(key)))

hasJSONKeyColon(bs, key, at, pos) ==
  IF pos <= Len(bs) /\ bs[pos] = ":" THEN "true"
  ELSE hasJSONKeyFrom(bs, key, at + 1)
hasJSONKeyAt(bs, key, at) ==
  IF at = 0 THEN "false"
  ELSE hasJSONKeyColon(bs, key, at, SkipWS(bs, at + Len(key)))
hasJSONKeyFrom(bs, key, off) ==
  IF off > Len(bs) + 1 THEN "panic"
  ELSE hasJSONKeyAt(bs, key, IndexFrom(bs, key, off))
hasJSONKeyResult(bs, key) == hasJSONKeyFrom(bs, key, 1)

hasJSONKey(bs, key) == hasJSONKeyResult(bs, key) = "true"

\* (mutant) the key is written without its quotes.
PromptFieldBare(key) == kPromptCacheKey \o <<":">> \o key

\* The field the fast splice writes: "prompt_cache_key":"<key>"
PromptField(key) == kPromptCacheKey \o <<":", QT>> \o key \o <<QT>>

\* main.go:152-188.  [ok, out]: out is the content written to the new buffer.
\* i: the first byte that is no whitespace; j: the next such byte after it.
\* (mutant) the comma is written even into an empty object.
injectAlwaysComma(bs, key, i, j) ==
  SubSeq(bs, 1, i) \o PromptField(key) \o <<",">> \o SubSeq(bs, i + 1, Len(bs))

injectAfterBrace(bs, key, i, j) ==
  IF j <= Len(bs) /\ bs[j] = "}"
    THEN SubSeq(bs, 1, i) \o PromptField(key) \o SubSeq(bs, j, Len(bs))
    ELSE SubSeq(bs, 1, i) \o PromptField(key) \o <<",">>
         \o SubSeq(bs, i + 1, Len(bs))
injectAt(bs, key, i) ==
  IF i > Len(bs) \/ bs[i] # "{" THEN [ok |-> FALSE, out |-> <<>>]
  ELSE [ok |-> TRUE, out |-> injectAfterBrace(bs, key, i, SkipWS(bs, i + 1))]
injectPromptCacheKeyFast(bs, key) == injectAt(bs, key, SkipWS(bs, 1))

(***************************************************************************)
(* JSON text, as the sonic AST sees it.  Parse is lazy in the library: the *)
(* top level is split into members (key, raw value text) and every nested  *)
(* value stays raw text that Encode writes back verbatim.                  *)
(***************************************************************************)
MatchAt(bs, i, lit) ==
  i + Len(lit) - 1 <= Len(bs) /\ SubSeq(bs, i, i + Len(lit) - 1) = lit

\* Where the run of backslashes that ends just before q starts (q: no run),
\* looking no further back than p.
BSRunStart(bs, p, q) ==
  CHOOSE r \in p..q :
    /\ \A x \in r..(q - 1) : bs[x] = BS
    /\ r = p \/ bs[r - 1] # BS

\* bs[q] is a quote that no backslash escapes, in a string that starts at p.
ClosesAt(bs, p, q) == bs[q] = QT /\ (q - BSRunStart(bs, p, q)) % 2 = 0

\* p is inside a string; the position after its closing quote, 0 if unclosed.
StrScan(bs, p) ==
  IF \E q \in p..Len(bs) : ClosesAt(bs, p, q)
    THEN 1 + CHOOSE q \in p..Len(bs) :
               ClosesAt(bs, p, q) /\ \A x \in p..(q - 1) : ~ClosesAt(bs, p, x)
    ELSE 0

DigitsEnd(bs, p) ==
  IF p > Len(bs) THEN p
  ELSE CHOOSE j \in p..(Len(bs) + 1) :
         /\ j > Len(bs) \/ bs[j] \notin Digits
         /\ \A q \in p..(j - 1) : bs[q] \in Digits

NumFrom(s, e) == IF e > s THEN e ELSE 0
NumAt(bs, s) == NumFrom(s, DigitsEnd(bs, s))
NumEnd(bs, i) == NumAt(bs, IF bs[i] = "-" THEN i + 1 ELSE i)

\* The character a \uXXXX escape of a key stands for (the escapes in use).
HexChar(h) == IF h = <<"0", "0", "6", "b">> THEN "k" ELSE "?"

\* s[i] is a backslash that opens an escape sequence.
EscStart(s, i) == s[i] = BS /\ (i - BSRunStart(s, 1, i)) % 2 = 0
\* s[i] is one of the four hex digits of a \uXXXX escape.
InHex(s, i) ==
  \E e \in (IF i > 5 THEN i - 5 ELSE 1)..(i - 2) :
    e + 5 <= Len(s) /\ EscStart(s, e) /\ s[e + 1] = "u"
\* What position i of a string's text contributes to the string.
Piece(s, i) ==
  CASE EscStart(s, i) /\ i + 1 <= Len(s) ->
         (IF s[i + 1] = "u" /\ i + 5 <= Len(s)
            THEN <<HexChar(SubSeq(s, i + 2, i + 5))>> ELSE <<s[i + 1]>>)
    [] i > 1 /\ EscStart(s, i - 1) -> <<>>
    [] InHex(s, i) -> <<>>
    [] OTHER -> <<s[i]>>

\* The text of a JSON string between its quotes, escapes resolved.
Unquote(s) == Flat([i \in 1..Len(s) |-> Piece(s, i)], 1, Len(s))

\* The text between the quotes that stands for s.
Quote(s) ==
  Flat([i \in 1..Len(s) |->
          IF s[i] = QT \/ s[i] = BS THEN <<BS, s[i]>> ELSE <<s[i]>>],
       1, Len(s))

Fail == [ok |-> FALSE, end |-> 0, items |-> <<>>]

\* The next quote or bracket at or after p (Len(bs)+1: none).
IsTok(c) == c \in {QT, "{", "[", "}", "]"}
NextTok(bs, p) ==
  IF p > Len(bs) THEN p
  ELSE CHOOSE j \in p..(Len(bs) + 1) :
         /\ j > Len(bs) \/ IsTok(bs[j])
         /\ \A x \in p..(j - 1) : ~IsTok(bs[x])

\* The position after the object or array in which q lies (depth brackets
\* are open, q is a quote or a bracket), 0 if the text ends first.  Nested
\* values are skipped, not loaded.
RECURSIVE NestEnd(_, _, _)
NestAfterStr(bs, e, depth) ==
  IF e = 0 THEN 0 ELSE NestEnd(bs, NextTok(bs, e), depth)
NestEnd(bs, q, depth) ==
  CASE q > Len(bs) -> 0
    [] bs[q] = QT -> NestAfterStr(bs, StrScan(bs, q + 1), depth)
    [] bs[q] \in {"{", "["} -> NestEnd(bs, NextTok(bs, q + 1), depth + 1)
    [] depth = 1 -> q + 1
    [] OTHER -> NestEnd(bs, NextTok(bs, q + 1), depth - 1)

\* The position after the value that starts at i, 0 if there is none.
ValEnd(bs, i) ==
  CASE i > Len(bs) -> 0
    [] bs[i] = QT -> StrScan(bs, i + 1)
    [] bs[i] \in {"{", "["} -> NestEnd(bs, NextTok(bs, i + 1), 1)
    [] bs[i] = "n" -> IF MatchAt(bs, i, <<"n", "u", "l", "l">>) THEN i + 4 ELSE 0
    [] bs[i] = "t" -> IF MatchAt(bs, i, <<"t", "r", "u", "e">>) THEN i + 4 ELSE 0
    [] bs[i] = "f" ->
         IF MatchAt(bs, i, <<"f", "a", "l", "s", "e">>) THEN i + 5 ELSE 0
    [] bs[i] \in Digits \cup {"-"} -> NumEnd(bs, i)
    [] OTHER -> 0

\* The member whose key starts at p (a quote): the position after the key,
\* where its value starts and ends, and the separator that follows; 0 when
\* the text is not a member that far.
KeyEnd(bs, p) == IF p > Len(bs) \/ bs[p] # QT THEN 0 ELSE StrScan(bs, p + 1)
ValStartAfter(bs, c) ==
  IF c > Len(bs) \/ bs[c] # ":" THEN 0 ELSE SkipWS(bs, c + 1)
ValStartFrom(bs, ke) == IF ke = 0 THEN 0 ELSE ValStartAfter(bs, SkipWS(bs, ke))
ValStart(bs, p) == ValStartFrom(bs, KeyEnd(bs, p))
ValStopFrom(bs, vs) == IF vs = 0 THEN 0 ELSE ValEnd(bs, vs)
ValStop(bs, p) == ValStopFrom(bs, ValStart(bs, p))
SepFrom(bs, ve) == IF ve = 0 THEN 0 ELSE SkipWS(bs, ve)
MemSep(bs, p) == SepFrom(bs, ValStop(bs, p))
MemberAt(bs, p) ==
  [k |-> Unquote(SubSeq(bs, p + 1, KeyEnd(bs, p) - 2)),
   v |-> SubSeq(bs, ValStart(bs, p), ValStop(bs, p) - 1)]

\* The members of an object, one at a time: p is where a key must start, n
\* the separator after the member; acc holds the members loaded so far.
RECURSIVE Members(_, _, _)
MemNext(bs, p, n, acc) ==
  CASE n = 0 \/ n > Len(bs) -> Fail
    [] bs[n] = "," ->
         Members(bs, SkipWS(bs, n + 1), Append(acc, MemberAt(bs, p)))
    [] bs[n] = "}" ->
         [ok |-> TRUE, end |-> n + 1, items |-> Append(acc, MemberAt(bs, p))]
    [] OTHER -> Fail
Members(bs, p, acc) == MemNext(bs, p, MemSep(bs, p), acc)

\* The elements of an array, likewise.
RECURSIVE Elems(_, _, _)
ElemNext(bs, p, ve, n, acc) ==
  CASE n = 0 \/ n > Len(bs) -> Fail
    [] bs[n] = "," ->
         Elems(bs, SkipWS(bs, n + 1), Append(acc, SubSeq(bs, p, ve - 1)))
    [] bs[n] = "]" ->
         [ok |-> TRUE, end |-> n + 1, items |-> Append(acc, SubSeq(bs, p, ve - 1))]
    [] OTHER -> Fail
ElemEnd(bs, p, ve, acc) == ElemNext(bs, p, ve, SepFrom(bs, ve), acc)
Elems(bs, p, acc) == ElemEnd(bs, p, ValEnd(bs, p), acc)

\* bs[i] = "{": the members of the object and the position after its "}".
ObjFrom(bs, p) ==
  IF p > Len(bs) THEN Fail
  ELSE IF bs[p] = "}" THEN [ok |-> TRUE, end |-> p + 1, items |-> <<>>]
  ELSE Members(bs, p, <<>>)
ObjParse(bs, i) == ObjFrom(bs, SkipWS(bs, i + 1))

\* bs[i] = "[": the elements of the array and the position after its "]".
ArrFrom(bs, p) ==
  IF p > Len(bs) THEN Fail
  ELSE IF bs[p] = "]" THEN [ok |-> TRUE, end |-> p + 1, items |-> <<>>]
  ELSE Elems(bs, p, <<>>)
ArrParse(bs, i) == ArrFrom(bs, SkipWS(bs, i + 1))

\* ast.Node.TypeSafe of a raw value, read off its first byte.
TypeSafe(raw) ==
  IF raw = <<>> THEN "none"
  ELSE IF raw[1] = QT THEN "string"
  ELSE IF raw[1] = "{" THEN "object"
  ELSE IF raw[1] = "[" THEN "array"
  ELSE IF raw[1] = "n" THEN "null"
  ELSE IF raw[1] \in {"t", "f"} THEN "bool"
  ELSE "number"

\* A tree: its type, its members (an object), its elements (an array) or its
\* text (a scalar).
Node(t, pairs, elems, raw) ==
  [t |-> t, pairs |-> pairs, elems |-> elems, raw |-> raw]

NoNode == Node("none", <<>>, <<>>, <<>>)

\* main.go:321-324, ast.NewParserObj(src).Parse(): [ok, root].  i is the
\* first byte of the value, what follows the value is not looked at.
RootOf(bs, i, t) ==
  IF t = "object" THEN Node(t, ObjParse(bs, i).items, <<>>, <<>>)
  ELSE IF t = "array" THEN Node(t, <<>>, ArrParse(bs, i).items, <<>>)
  ELSE Node(t, <<>>, <<>>, SubSeq(bs, i, ValEnd(bs, i) - 1))
ParseAt(bs, i, ok) ==
  IF ~ok THEN [ok |-> FALSE, root |-> NoNode]
  ELSE [ok |-> TRUE, root |-> RootOf(bs, i, TypeSafe(<<bs[i]>>))]
WellFormedAt(bs, i) ==
  IF i > Len(bs) THEN FALSE
  ELSE IF bs[i] = "{" THEN ObjParse(bs, i).ok
  ELSE IF bs[i] = "[" THEN ArrParse(bs, i).ok
  ELSE ValEnd(bs, i) # 0
ParseFrom(bs, i) == ParseAt(bs, i, WellFormedAt(bs, i))
ParseRoot(bs) == ParseFrom(bs, SkipWS(bs, 1))

\* The pieces ss, with sep between them.
Join(ss, sep) ==
  Flat([i \in 1..Len(ss) |-> IF i = 1 THEN ss[1] ELSE sep \o ss[i]],
       1, Len(ss))

PairText(p) == <<QT>> \o Quote(p.k) \o <<QT, ":">> \o p.v

\* ast.NewString, ast.NewObject, ast.NewArray: the text Encode writes for them.
NewString(s) == <<QT>> \o Quote(s) \o <<QT>>
NewObject(pairs) ==
  <<"{">> \o Join([i \in 1..Len(pairs) |-> PairText(pairs[i])], <<",">>) \o <<"}">>
NewArray(nodes) == <<"[">> \o Join(nodes, <<",">>) \o <<"]">>

\* main.go:387-388, Encode(&root) without a trailing newline.
EncodeNode(root) ==
  IF root.t = "object" THEN NewObject(root.pairs)
  ELSE IF root.t = "array" THEN NewArray(root.elems)
  ELSE root.raw

\* Position of the first member named k, 0 if there is none.
Find(pairs, k) ==
  IF \E i \in 1..Len(pairs) : pairs[i].k = k
    THEN CHOOSE i \in 1..Len(pairs) :
           pairs[i].k = k /\ \A j \in 1..(i - 1) : pairs[j].k # k
    ELSE 0

\* Position of the member root.Get/Set/Unset(k) work on, 0 if there is none.
Slot(root, k) == IF root.t = "object" THEN Find(root.pairs, k) ELSE 0

\* root.Get(k): does the member exist, and its raw value.
NodeGetAt(root, i) ==
  IF i = 0 THEN [exists |-> FALSE, v |-> <<>>]
  ELSE [exists |-> TRUE, v |-> root.pairs[i].v]
NodeGet(root, k) == NodeGetAt(root, Slot(root, k))

\* root.Set(k, v): a null or empty node becomes an object; an object has the
\* member replaced in place or appended; any other node is left alone (error).
NodeSetAt(root, k, v, i) ==
  IF root.t \in {"none", "null"}
    THEN Node("object", <<[k |-> k, v |-> v]>>, <<>>, <<>>)
  ELSE IF root.t # "object" THEN root
  ELSE IF i = 0 THEN [root EXCEPT !.pairs = Append(@, [k |-> k, v |-> v])]
  ELSE [root EXCEPT !.pairs[i].v = v]
NodeSet(root, k, v) == NodeSetAt(root, k, v, Slot(root, k))

\* (mutant) nothing is removed.
NodeUnsetNothing(root, i) == root

\* root.Unset(k): the first member named k is removed, the others keep order.
NodeUnsetAt(root, i) ==
  IF i = 0 THEN root
  ELSE [root EXCEPT !.pairs =
          SubSeq(@, 1, i - 1) \o SubSeq(@, i + 1, Len(@))]
NodeUnset(root, k) == NodeUnsetAt(root, Slot(root, k))

\* in.Move(dst, src) on the elements (0-based indexes, as in the code): the
\* element at src is taken out and put back at dst.
MoveInto(rest, dst, x) ==
  SubSeq(rest, 1, dst) \o <<x>> \o SubSeq(rest, dst + 1, Len(rest))
Move(elems, dst, src) ==
  MoveInto(SubSeq(elems, 1, src) \o SubSeq(elems, src + 2, Len(elems)),
           dst, elems[src + 1])

\* main.go:345-348 and 360-363
DevMessage(content) ==
  NewObject(<<[k |-> nRole, v |-> NewString(sDeveloper)],
              [k |-> nContent, v |-> content]>>)
UserMessage(content) ==
  NewObject(<<[k |-> nRole, v |-> NewString(sUser)],
              [k |-> nContent, v |-> content]>>)

\* (mutant) the added element is left at the end.
LeftAtEnd(added, n) == NewArray(added)

\* main.go:366-374, case ast.V_ARRAY: Add at the end, then Move to index 0.
MoveToFront(added, n) ==
  NewArray(IF n > 1 THEN Move(added, 0, n - 1) ELSE added)
AddThenMove(added) == MoveToFront(added, Len(added))
PrependToArray(raw, dev) == AddThenMove(Append(ArrParse(raw, 1).items, dev))

\* main.go:330-336
EnsureWith(root, pk, key) ==
  IF ~pk.exists \/ TypeSafe(pk.v) = "null"
    THEN NodeSet(root, nPromptCacheKey, NewString(key))
    ELSE root
EnsurePromptCacheKey(root, hasPrompt, key) ==
  IF hasPrompt THEN root
  ELSE EnsureWith(root, NodeGet(root, nPromptCacheKey), key)

\* (mutant) a string input is dropped like any other scalar.
MigrateInputNoUser(r1, dev, in, ty) ==
  IF ty = "array" THEN NodeSet(r1, nInput, PrependToArray(in.v, dev))
  ELSE NodeSet(r1, nInput, NewArray(<<dev>>))

\* main.go:350-378: in is root.Get("input"), ty its type.
MigrateInput(r1, dev, in, ty) ==
  IF ~in.exists \/ ty = "null" THEN NodeSet(r1, nInput, NewArray(<<dev>>))
  ELSE IF ty = "string"
    THEN NodeSet(r1, nInput, NewArray(<<dev, UserMessage(in.v)>>))
  ELSE IF ty = "array" THEN NodeSet(r1, nInput, PrependToArray(in.v, dev))
  ELSE NodeSet(r1, nInput, NewArray(<<dev>>))
MigrateFrom(r1, dev, in) == MigrateInput(r1, dev, in, TypeSafe(in.v))
\* (mutant) instructions of any type is moved into input.
MigrateAnyType(root, ins) ==
  IF ~ins.exists THEN root
  ELSE MigrateFrom(NodeUnset(root, nInstructions), DevMessage(ins.v),
                   NodeGet(NodeUnset(root, nInstructions), nInput))

\* main.go:339-348: ins is root.Get("instructions").
MigrateWith(root, ins) ==
  IF ~(ins.exists /\ TypeSafe(ins.v) = "string") THEN root
  ELSE MigrateFrom(NodeUnset(root, nInstructions), DevMessage(ins.v),
                   NodeGet(NodeUnset(root, nInstructions), nInput))
\* main.go:338-380
MigrateInstructions(root, shouldRewrite) ==
  IF ~shouldRewrite THEN root
  ELSE MigrateWith(root, NodeGet(root, nInstructions))

(***************************************************************************)
(* Cache-key derivation                                                    *)
(***************************************************************************)
\* The identity strings of the model, each with its own digest.
IdentityStrings ==
  << <<"A">>, <<"B">>, <<"X">>, <<"Y">>, <<"9", "|">>, <<"9", "|", "u">>,
     <<"K">>, <<"L">> >>

HexDigits == <<"0", "1", "2", "3", "4", "5", "6", "7", "8", "9">>

\* sha256.Sum256 + hex.EncodeToString(sum[:16]) (main.go:145-147): a digest is
\* collision-free and lower-case hex; here two hex characters stand for the 32.
Sum256Hex(s) ==
  LET i == CHOOSE j \in 1..Len(IdentityStrings) : IdentityStrings[j] = s
  IN <<"c", HexDigits[i]>>

\* (mutant) x-api-key is looked at before Authorization.
deriveXApiKeyFirst(r) ==
  Sum256Hex(IF r.xapi # <<>> THEN r.xapi
            ELSE IF r.auth # <<>> THEN r.auth
            ELSE IF r.apikey # <<>> THEN r.apikey
            ELSE r.remote \o <<"|">> \o r.ua)

\* main.go:134-148
derivePromptCacheKey(r) ==
  LET s == IF r.auth # <<>> THEN r.auth
           ELSE IF r.xapi # <<>> THEN r.xapi
           ELSE IF r.apikey # <<>> THEN r.apikey
           ELSE r.remote \o <<"|">> \o r.ua
  IN Sum256Hex(s)

(***************************************************************************)
(* The request bodies of the model                                         *)
(***************************************************************************)
MaxInputLen == 2
MaxPass == 2
MaxClose == 2
NumBufs == 2
MaxScanLen == 4

Str(s) == <<QT>> \o s \o <<QT>>
sNull == <<"n", "u", "l", "l">>
sTrue == <<"t", "r", "u", "e">>

\* lay = 1: compact text; lay = 2: whitespace around every token.
Sp(lay) == IF lay = 2 THEN <<" ">> ELSE <<>>
Member(klit, v, lay) == klit \o Sp(lay) \o <<":">> \o Sp(lay) \o v
Object(fields, lay) ==
  Sp(lay) \o <<"{">> \o Sp(lay) \o Join(fields, Sp(lay) \o <<",">> \o Sp(lay))
  \o Sp(lay) \o <<"}">> \o (IF lay = 2 THEN <<"\n">> ELSE <<>>)

ElemPool == << <<"1">>, Str(<<"U">>), <<"{">> \o Str(<<"a">>) \o <<":", "2", "}">> >>
ArrayOf(n, lay) ==
  <<"[">> \o Sp(lay)
  \o Join([i \in 1..n |-> ElemPool[((i - 1) % 3) + 1]], <<",">> \o Sp(lay))
  \o <<"]">>

kEscapedPromptKey ==
  <<QT, "p", "r", "o", "m", "p", "t", "_", "c", "a", "c", "h", "e", "_",
    BS, "u", "0", "0", "6", "b", "e", "y", QT>>
kModel == Str(<<"m", "o", "d", "e", "l">>)
kTools == Str(<<"t">>)
Nested(klit) == <<"{">> \o klit \o <<":">> \o Str(<<"x">>) \o <<"}">>

InstrValues == << Str(<<"S">>), sNull, <<"[">> \o Str(<<"S">>) \o <<"]">> >>
InputValues(lay) ==
  << sNull, Str(<<"U">>), <<"7">>, sTrue, Nested(Str(<<"a">>)) >>
  \o [n \in 1..(MaxInputLen + 1) |-> ArrayOf(n - 1, lay)]
PromptFields(lay) ==
  << Member(kPromptCacheKey, Str(<<"P">>), lay),
     Member(kPromptCacheKey, sNull, lay),
     Member(kEscapedPromptKey, Str(<<"P">>), lay) >>
OtherFields(lay) ==
  << Member(kModel, Str(<<"m">>), lay),
     Member(kTools, Nested(kInstrKey), lay),
     Member(kTools, Nested(kPromptCacheKey), lay) >>

Opt(i, f) == IF i = 0 THEN <<>> ELSE <<f>>

\* The object a choice c stands for: each member absent (0) or one of its forms.
DocOf(c) ==
  Object(  Opt(c.other, OtherFields(c.lay)[c.other])
        \o Opt(c.instr, Member(kInstrKey, InstrValues[c.instr], c.lay))
        \o Opt(c.input, Member(Str(nInput), InputValues(c.lay)[c.input], c.lay))
        \o Opt(c.prev, Member(kPrevRespIDKey, Str(<<"r">>), c.lay))
        \o Opt(c.pck, PromptFields(c.lay)[c.pck]),
         c.lay)

\* Every form of input goes with the instructions string; the other forms of
\* instructions go with no input, a string and a one-element array.  The
\* whitespace layout goes with no other member and with a plain one.
Choices ==
  { c \in [other : 0..3, instr : 0..3, input : 0..(MaxInputLen + 6),
           prev : 0..1, pck : 0..3, lay : 1..2] :
      /\ c.instr # 1 => c.input \in {0, 2, 7}
      /\ c.lay = 2 => c.other \in {0, 1} }

\* Bodies that are no object, or no JSON at all.
OddBodies ==
  { <<>>,
    sNull,
    <<"[", "1", ",", " ", "2", "]">>,
    <<"[">> \o Nested(kInstrKey) \o <<"]">>,
    <<"{">> \o Member(kInstrKey, Str(<<"S">>), 1),
    <<"[">> \o Nested(kPrevRespIDKey) \o <<"]">>,
    <<"{">> \o Member(kPromptCacheKey, Str(<<"P">>), 1) \o <<",">>,
    <<"{">> \o Member(kModel, Str(<<"m">>), 1),
    <<"{">> \o Member(kPrevRespIDKey, Str(<<"r">>), 1),
    <<"x">> }

\* A few bodies, taken with every header, encoding and read fault.
FewBodies1 ==
  DocOf([other |-> 0, instr |-> 0, input |-> 0, prev |-> 0, pck |-> 0, lay |-> 1])
FewBodies2 ==
  DocOf([other |-> 1, instr |-> 1, input |-> 2, prev |-> 0, pck |-> 0, lay |-> 1])
FewBodies ==
  { FewBodies1,
    FewBodies2,
    DocOf([other |-> 0, instr |-> 1, input |-> 0, prev |-> 1, pck |-> 1, lay |-> 2]) }

(***************************************************************************)
(* State                                                                   *)
(***************************************************************************)
\* main.go:27-28
preGrow == 32768
maxKeepBufCap == 1048576

Bufs == 1..NumBufs

VARIABLES
  req,         \* the request: identity headers, encoding and length fields
  wire,        \* the inbound body: [plain, fault]
  origClosed,  \* Close was called on the inbound body
  pass,        \* how many times the body went through the pipeline
  pc,          \* position of tweakBodySonic
  b, out,      \* the buffers tweakBodySonic holds (0: none)
  flags,       \* needInstr, hasPrompt, hasPrev (main.go:295-297)
  root,        \* the tree parsed over bs
  lazyErr,     \* the text is malformed and the lazy parse has not seen it yet
  body,        \* the installed pooledBody: [h, n], h = 0 when none is installed
  pool,        \* bufPool: how many times each buffer is in the pool
  mem,         \* each buffer's memory
  blen,        \* each buffer's length (b.Len())
  cap,         \* each buffer's capacity (b.Cap())
  created,     \* buffers made by bufPool.New so far
  puts,        \* bufPool.Put calls on each buffer since it was last acquired
  closes,      \* Close calls the forwarder made on the installed body
  closeLimit,  \* how many Close calls the forwarder makes at most
  sent,        \* what the forwarder read from the installed body
  inp,         \* the fully read (decompressed) input of this pass
  prevSent,    \* what the forwarder read in the pass before
  path,        \* the exit tweakBodySonic took
  recv,        \* the inbound request as the client sent it (Director works on a clone)
  scan         \* one call of hasJSONKey on its own: [bs, key, done, res]

vars ==
  <<req, wire, origClosed, pass, pc, b, out, flags, root, lazyErr, body, pool,
    mem, blen, cap, created, puts, closes, closeLimit, sent, inp, prevSent, path,
    recv, scan>>

NoBody == [h |-> 0, n |-> 0]
NoFlags == [needInstr |-> FALSE, hasPrompt |-> FALSE, hasPrev |-> FALSE]
Unsent == <<"?">>
NoScan == [bs |-> <<>>, key |-> <<>>, done |-> FALSE, res |-> ""]

\* b.Bytes()
Bytes(h) == SubSeq(mem[h], 1, blen[h])

\* What a read of the installed body yields: the reader holds the slice
\* bs = b.Bytes() taken by setBody, which shares the buffer's memory.
BodyBytes == SubSeq(mem[body.h], 1, body.n)

Max(x, y) == IF x >= y THEN x ELSE y

(***************************************************************************)
(* The inbound body stream                                                 *)
(***************************************************************************)
\* A gzip stream: header, the payload, trailer.
Gzip(plain) == <<"GZ">> \o plain \o <<"TR">>

\* main.go:115-125: gzip.NewReader / Reset fail unless the stream opens with a
\* gzip header (or when the transport fails under it).
GzipInitOk(w) == ~w.err /\ w.data # <<>> /\ Head(w.data) = "GZ"

\* (mutant) the stream is copied as it came, not inflated.
NotInflated(data) == data

\* b.ReadFrom(zr): what is inflated into b, and whether the stream ended well.
GzipPayload(data) ==
  SubSeq(data, 2, IF data[Len(data)] = "TR" THEN Len(data) - 1 ELSE Len(data))
GzipDrainOk(data) == Len(data) >= 2 /\ data[Len(data)] = "TR"

(***************************************************************************)
(* bufPool (main.go:34) and putBuf (main.go:56-62)                         *)
(***************************************************************************)
\* bufPool.Get(): a pooled buffer, or a new one from New.
GetChoices ==
  {h \in Bufs : pool[h] > 0} \cup (IF created < NumBufs THEN {created + 1} ELSE {})

PoolAfterGet(pl, h) == IF pl[h] > 0 THEN [pl EXCEPT ![h] = @ - 1] ELSE pl
CreatedAfterGet(h) == IF h > created THEN h ELSE created
CapAfterGet(cp, h) == IF h > created THEN [cp EXCEPT ![h] = preGrow] ELSE cp

\* putBuf keeps the buffer unless it grew beyond maxKeepBufCap.
Kept(cp, h) == ~(cp[h] > maxKeepBufCap)
\* (mutant) putBuf drops the buffer instead of pooling it.
PoolWithoutPut(pl, cp, h) == pl
PoolAfterPut(pl, cp, h) == IF Kept(cp, h) THEN [pl EXCEPT ![h] = @ + 1] ELSE pl
PutsAfterPut(ps, cp, h) == IF Kept(cp, h) THEN [ps EXCEPT ![h] = @ + 1] ELSE ps
LenAfterPut(ln, cp, h) == IF Kept(cp, h) THEN [ln EXCEPT ![h] = 0] ELSE ln

\* Writing d into a buffer that was just Reset: the bytes beyond d stay as
\* they were in the buffer's memory.
MemAfterWrite(m, h, d) ==
  [m EXCEPT ![h] = d \o SubSeq(@, Len(d) + 1, Len(@))]

\* (mutant) the chunked-transfer marks are left on the request.
setBodyKeepsChunked(r, n) == [r EXCEPT !.contentLength = n, !.clHeader = n]

\* main.go:64-71
setBody(r, n) ==
  [r EXCEPT !.contentLength = n, !.clHeader = n,
            !.teHeader = FALSE, !.transferEncoding = FALSE]

\* (mutant) the previous_response_id override is left out.
needInstrOnly == flags.needInstr

\* main.go:301
shouldRewriteInstr == flags.needInstr /\ ~flags.hasPrev

ScanFlags(bs) ==
  [needInstr |-> hasJSONKey(bs, kInstrKey),
   hasPrompt |-> hasJSONKey(bs, kPromptCacheKey),
   hasPrev |-> hasJSONKey(bs, kPrevRespIDKey)]

(***************************************************************************)
(* tweakBodySonic (main.go:245-397)                                        *)
(***************************************************************************)
\* bufPool.Get().(*bytes.Buffer), Reset, Grow(grow) and the write of d.
Acquire(h, d, grow) ==
  /\ pool' = PoolAfterGet(pool, h)
  /\ created' = CreatedAfterGet(h)
  /\ puts' = [puts EXCEPT ![h] = 0]
  /\ mem' = MemAfterWrite(mem, h, d)
  /\ blen' = [blen EXCEPT ![h] = Len(d)]
  /\ cap' = [CapAfterGet(cap, h) EXCEPT ![h] = Max(@, Max(grow, Len(d)))]

\* putBuf(hput); setBody(req, hbody); return.  ln: the lengths after putBuf.
PutThenSet(hput, hbody, ln) ==
  /\ pool' = PoolAfterPut(pool, cap, hput)
  /\ puts' = PutsAfterPut(puts, cap, hput)
  /\ blen' = ln
  /\ body' = [h |-> hbody, n |-> ln[hbody]]
  /\ req' = setBody(req, ln[hbody])
  /\ b' = 0 /\ out' = 0
  /\ pc' = "done"

\* setBody(req, b); return, with nothing put back.
SetInput ==
  /\ body' = [h |-> b, n |-> blen[b]]
  /\ req' = setBody(req, blen[b])
  /\ b' = 0
  /\ pc' = "done"

\* main.go:246-248
NilBody ==
  /\ pc = "start" /\ wire.nil
  /\ pc' = "done" /\ path' = "nilbody"
  /\ UNCHANGED <<recv, scan, req, wire, origClosed, pass, b, out, flags, root, lazyErr,
                 body, pool, mem, blen, cap, created, puts, closes,
                 closeLimit, sent, inp, prevSent>>

\* main.go:254-256
PreGrow == IF req.contentLength > 0 /\ req.contentLength < maxKeepBufCap
             THEN req.contentLength ELSE 0

ReadInto(h, plain) ==
  /\ b' = h
  /\ Acquire(h, plain, PreGrow)
  /\ inp' = plain
  /\ flags' = ScanFlags(plain)

\* main.go:250-301: the body is read in full into a pooled buffer (inflated
\* when Content-Encoding is gzip) and scanned for the three keys.
ReadBody ==
  /\ pc = "start" /\ ~wire.nil
  /\ IF req.ce = "gzip" THEN GzipInitOk(wire) /\ GzipDrainOk(wire.data)
                        ELSE ~wire.err
  /\ \E h \in GetChoices :
       ReadInto(h, IF req.ce = "gzip" THEN GzipPayload(wire.data) ELSE wire.data)
  /\ req' = [req EXCEPT !.ce = IF @ = "gzip" THEN "" ELSE @]
  /\ origClosed' = TRUE
  /\ pc' = "decide"
  /\ UNCHANGED <<recv, scan, wire, pass, out, root, lazyErr, body, closes, closeLimit,
                 sent, prevSent, path>>

\* What reached the buffer before the read failed.
PartRead ==
  IF req.ce = "gzip" /\ GzipInitOk(wire) THEN GzipPayload(wire.data)
  ELSE IF req.ce = "gzip" THEN <<>>
  ELSE SubSeq(wire.data, 1, Len(wire.data) \div 2)

\* (mutant) the buffer is taken and written, and never put back.
TakeAndKeep(h, part, cp) ==
  /\ created' = CreatedAfterGet(h)
  /\ mem' = MemAfterWrite(mem, h, part)
  /\ cap' = cp
  /\ pool' = PoolAfterGet(pool, h)
  /\ puts' = [puts EXCEPT ![h] = 0]
  /\ blen' = [blen EXCEPT ![h] = Len(part)]

\* The buffer is taken, partly written and put back.  cp: its capacity then.
TakeAndPut(h, part, cp) ==
  /\ created' = CreatedAfterGet(h)
  /\ mem' = MemAfterWrite(mem, h, part)
  /\ cap' = cp
  /\ pool' = PoolAfterPut(PoolAfterGet(pool, h), cp, h)
  /\ puts' = PutsAfterPut([puts EXCEPT ![h] = 0], cp, h)
  /\ blen' = LenAfterPut([blen EXCEPT ![h] = Len(part)], cp, h)

\* main.go:261-265, 269-272, 277-280: the read fails; the buffer goes back.
ReadFail ==
  /\ pc = "start" /\ ~wire.nil
  /\ IF req.ce = "gzip" THEN ~(GzipInitOk(wire) /\ GzipDrainOk(wire.data))
                        ELSE wire.err
  /\ \E h \in GetChoices :
       TakeAndPut(h, PartRead,
                  [CapAfterGet(cap, h) EXCEPT ![h] = Max(@, Max(PreGrow, Len(PartRead)))])
  /\ origClosed' = TRUE
  /\ pc' = "done" /\ path' = "readfail"
  /\ UNCHANGED <<recv, scan, req, wire, pass, b, out, flags, root, lazyErr, body, closes,
                 closeLimit, sent, inp, prevSent>>

\* The splice of the derived key into the bytes read.
Spliced == injectPromptCacheKeyFast(Bytes(b), derivePromptCacheKey(req))

\* main.go:303-306: the fast splice writes the new body into a second buffer.
FastInject ==
  /\ pc = "decide" /\ ~shouldRewriteInstr /\ ~flags.hasPrompt
  /\ Spliced.ok
  /\ \E h \in GetChoices :
       /\ out' = h
       /\ Acquire(h, Spliced.out,
                  blen[b] + Len(derivePromptCacheKey(req)) + 32)
  /\ pc' = "fast"
  /\ UNCHANGED <<recv, scan, req, wire, origClosed, pass, b, flags, root, lazyErr, body,
                 closes, closeLimit, sent, inp, prevSent, path>>

\* main.go:307-309: putBuf(b); setBody(req, out); return
FastFinish ==
  /\ pc = "fast"
  /\ PutThenSet(b, out, LenAfterPut(blen, cap, b))
  /\ path' = "fast"
  /\ UNCHANGED <<recv, scan, wire, origClosed, pass, flags, root, lazyErr, mem, cap,
                 created, closes, closeLimit, sent, inp, prevSent>>

\* main.go:314-318: nothing to change, the input buffer becomes the body.
Passthrough ==
  /\ pc = "decide" /\ ~shouldRewriteInstr /\ flags.hasPrompt
  /\ SetInput
  /\ path' = "pass"
  /\ UNCHANGED <<recv, scan, wire, origClosed, pass, out, flags, root, lazyErr, pool, mem,
                 blen, cap, created, puts, closes, closeLimit, sent, inp,
                 prevSent>>

\* main.go:320: a rewrite is wanted, or the splice did not apply.
TreePath ==
  /\ pc = "decide"
  /\ shouldRewriteInstr \/ (~flags.hasPrompt /\ ~Spliced.ok)

\* main.go:321-327: the text does not parse; the input buffer becomes the body.
ParseError ==
  /\ TreePath
  /\ ~ParseRoot(Bytes(b)).ok
  /\ SetInput
  /\ path' = "parsefail"
  /\ UNCHANGED <<recv, scan, wire, origClosed, pass, out, flags, root, lazyErr, pool, mem,
                 blen, cap, created, puts, closes, closeLimit, sent, inp,
                 prevSent>>

\* main.go:329-380 on the parsed tree.
Mutated(parsed) ==
  MigrateInstructions(
    EnsurePromptCacheKey(parsed, flags.hasPrompt, derivePromptCacheKey(req)),
    shouldRewriteInstr)

\* main.go:321-380: the tree is built over the input bytes and mutated.
ParseTree ==
  /\ TreePath
  /\ ParseRoot(Bytes(b)).ok
  /\ root' = Mutated(ParseRoot(Bytes(b)).root)
  /\ lazyErr' = FALSE
  /\ pc' = "encode"
  /\ UNCHANGED <<recv, scan, req, wire, origClosed, pass, b, out, flags, body, pool, mem,
                 blen, cap, created, puts, closes, closeLimit, sent, inp,
                 prevSent, path>>

\* The parse is lazy: malformed text past the first token is only met when
\* the members are loaded, and the error of Get/Set/Unset is dropped; it
\* comes back from Encode.
ParseLazy ==
  /\ TreePath
  /\ ~ParseRoot(Bytes(b)).ok
  /\ root' = NoNode
  /\ lazyErr' = TRUE
  /\ pc' = "encode"
  /\ UNCHANGED <<recv, scan, req, wire, origClosed, pass, b, out, flags, body, pool, mem,
                 blen, cap, created, puts, closes, closeLimit, sent, inp,
                 prevSent, path>>

\* main.go:382-388: a second buffer is taken and the tree is serialized.
Encode ==
  /\ pc = "encode"
  /\ \E h \in GetChoices :
       /\ out' = h
       /\ Acquire(h, IF lazyErr THEN <<"{">> ELSE EncodeNode(root), blen[b] + 64)
  /\ pc' = IF lazyErr THEN "encfail" ELSE "encoded"
  /\ UNCHANGED <<recv, scan, req, wire, origClosed, pass, b, flags, root, lazyErr, body,
                 closes, closeLimit, sent, inp, prevSent, path>>

\* (mutant) after a failed Encode the output buffer is forwarded.
EncodeFailForwardsOutput ==
  /\ pc = "encfail"
  /\ PutThenSet(b, out, LenAfterPut(blen, cap, b))
  /\ root' = NoNode /\ lazyErr' = FALSE
  /\ path' = "encfail"
  /\ UNCHANGED <<recv, scan, wire, origClosed, pass, flags, mem, cap, created,
                 closes, closeLimit, sent, inp, prevSent>>

\* main.go:388-392: Encode failed; putBuf(out); setBody(req, b); return
EncodeFail ==
  /\ pc = "encfail"
  /\ PutThenSet(out, b, LenAfterPut(blen, cap, out))
  /\ root' = NoNode /\ lazyErr' = FALSE
  /\ path' = "encfail"
  /\ UNCHANGED <<recv, scan, wire, origClosed, pass, flags, mem, cap, created, closes,
                 closeLimit, sent, inp, prevSent>>

\* main.go:394-396: putBuf(b); setBody(req, out)
EncodeFinish ==
  /\ pc = "encoded"
  /\ PutThenSet(b, out, LenAfterPut(blen, cap, b))
  /\ root' = NoNode
  /\ path' = "tree"
  /\ UNCHANGED <<recv, scan, wire, origClosed, pass, flags, lazyErr, mem, cap, created,
                 closes, closeLimit, sent, inp, prevSent>>

(***************************************************************************)
(* The forwarder (httputil.ReverseProxy and its transport)                 *)
(***************************************************************************)
\* main.go:53, pooledBody.Read until EOF
ForwardRead ==
  /\ pc = "done" /\ body.h # 0 /\ closes = 0 /\ sent = Unsent
  /\ sent' = BodyBytes
  /\ UNCHANGED <<recv, scan, req, wire, origClosed, pass, pc, b, out, flags, root, lazyErr,
                 body, pool, mem, blen, cap, created, puts, closes,
                 closeLimit, inp, prevSent, path>>

\* main.go:54, pooledBody.Close
CloseBody ==
  /\ pc = "done" /\ body.h # 0 /\ closes < closeLimit
  /\ pool' = PoolAfterPut(pool, cap, body.h)
  /\ puts' = PutsAfterPut(puts, cap, body.h)
  /\ blen' = LenAfterPut(blen, cap, body.h)
  /\ closes' = closes + 1
  /\ UNCHANGED <<recv, scan, req, wire, origClosed, pass, pc, b, out, flags, root, lazyErr,
                 body, mem, cap, created, closeLimit, sent, inp, prevSent,
                 path>>

\* main.go:227-229: what was forwarded arrives again as a new request of the
\* same client.
Resubmit ==
  /\ pc = "done" /\ sent # Unsent /\ closes >= 1 /\ pass < MaxPass
  /\ pass' = pass + 1
  /\ wire' = [nil |-> FALSE, data |-> sent, err |-> FALSE]
  /\ req' = [req EXCEPT !.contentLength = Len(sent), !.clHeader = Len(sent)]
  /\ recv' = req'
  /\ prevSent' = sent
  /\ sent' = Unsent
  /\ body' = NoBody
  /\ closes' = 0
  /\ origClosed' = FALSE
  /\ flags' = NoFlags
  /\ inp' = <<>>
  /\ pc' = "start" /\ path' = "none"
  /\ UNCHANGED <<scan, b, out, root, lazyErr, pool, mem, blen, cap, created, puts,
                 closeLimit>>

(***************************************************************************)
(* Specifications                                                          *)
(***************************************************************************)
Request(auth, xapi, ce, te, n) ==
  [auth |-> auth, xapi |-> xapi, apikey |-> <<>>, ua |-> <<"u">>,
   remote |-> <<"9">>, ce |-> ce,
   clHeader |-> IF te THEN -1 ELSE n, contentLength |-> IF te THEN -1 ELSE n,
   teHeader |-> te, transferEncoding |-> te]

\* The identity headers requests come with.
Identities ==
  [auth : {<<>>, <<"A">>, <<"B">>}, xapi : {<<>>, <<"X">>, <<"Y">>},
   apikey : {<<>>, <<"K">>, <<"L">>}, ua : {<<>>, <<"u">>}, remote : {<<"9">>}]

\* Two bodies that get the derived key (by splice, by the tree), sent in
\* clear with every identity.
InitIdentities ==
  \E id \in Identities, d \in {FewBodies1, FewBodies2} :
    /\ wire = [nil |-> FALSE, data |-> d, err |-> FALSE]
    /\ req = [Request(id.auth, id.xapi, "", FALSE, Len(d))
                EXCEPT !.apikey = id.apikey, !.ua = id.ua]

\* Every object of the model, sent in clear by one client.
InitDocs ==
  \E c \in Choices :
    /\ wire = [nil |-> FALSE, data |-> DocOf(c), err |-> FALSE]
    /\ req = Request(<<"A">>, <<>>, "", FALSE, Len(DocOf(c)))

\* A few bodies with every identity, encoding and fault of the stream.
InitFew ==
  \E d \in FewBodies \cup OddBodies, auth \in {<<>>, <<"A">>},
     xapi \in {<<>>, <<"X">>}, te \in BOOLEAN,
     k \in {"plain", "gzip", "cut", "notgzip", "err", "nil"} :
    /\ wire = [nil |-> k = "nil",
               data |-> IF k = "gzip" THEN Gzip(d)
                        ELSE IF k = "cut" THEN <<"GZ">> \o d
                        ELSE d,
               err |-> k = "err"]
    /\ req = Request(auth, xapi,
                     IF k \in {"gzip", "cut", "notgzip"} THEN "gzip" ELSE "",
                     te, Len(wire.data))

InitRest ==
  /\ origClosed = FALSE
  /\ pass = 1
  /\ pc = "start"
  /\ b = 0 /\ out = 0
  /\ flags = NoFlags
  /\ root = NoNode
  /\ lazyErr = FALSE
  /\ body = NoBody
  /\ pool = [h \in Bufs |-> 0]
  /\ mem = [h \in Bufs |-> <<>>]
  /\ blen = [h \in Bufs |-> 0]
  /\ cap = [h \in Bufs |-> 0]
  /\ created = 0
  /\ puts = [h \in Bufs |-> 0]
  /\ closes = 0
  /\ sent = Unsent
  /\ inp = <<>>
  /\ prevSent = Unsent
  /\ path = "none"
  /\ recv = req

\* The forwarder closes the body it was given once.
Init == (InitDocs \/ InitFew \/ InitIdentities) /\ InitRest /\ closeLimit = 1 /\ scan = NoScan

\* The forwarder may close it again.
InitAnyClose ==
  (InitDocs \/ InitFew \/ InitIdentities) /\ InitRest /\ closeLimit \in 1..MaxClose /\ scan = NoScan

Next ==
  \/ NilBody
  \/ ReadBody
  \/ ReadFail
  \/ FastInject
  \/ FastFinish
  \/ Passthrough
  \/ ParseError
  \/ ParseTree
  \/ ParseLazy
  \/ Encode
  \/ EncodeFail
  \/ EncodeFinish
  \/ ForwardRead
  \/ CloseBody
  \/ Resubmit

Spec == Init /\ [][Next]_vars

SpecAnyClose == InitAnyClose /\ [][Next]_vars

\* hasJSONKey on its own, on every short text over a few bytes and with
\* keys that overlap themselves.
ScanAlphabet == {"a", "b", ":", " ", "\n"}
ScanTexts == UNION {[1..m -> ScanAlphabet] : m \in 0..MaxScanLen}
ScanKeys == {<<>>, <<"a">>, <<"a", "a">>, <<"a", "b", "a">>}

InitScan ==
  /\ wire = [nil |-> TRUE, data |-> <<>>, err |-> FALSE]
  /\ req = Request(<<>>, <<>>, "", FALSE, 0)
  /\ InitRest /\ closeLimit = 1
  /\ scan \in [bs : ScanTexts, key : ScanKeys, done : {FALSE}, res : {""}]

\* main.go:86-101, one call
ScanKey ==
  /\ ~scan.done
  /\ scan' = [scan EXCEPT !.done = TRUE,
                          !.res = hasJSONKeyResult(scan.bs, scan.key)]
  /\ UNCHANGED <<req, wire, origClosed, pass, pc, b, out, flags, root, lazyErr,
                 body, pool, mem, blen, cap, created, puts, closes,
                 closeLimit, sent, inp, prevSent, path, recv>>

NextScan == ScanKey

SpecScan == InitScan /\ [][NextScan]_vars

\* The forwarder closes the body it was given (the transport closes the
\* request body on every way out of RoundTrip).
SpecLive == Spec /\ WF_vars(CloseBody)
(***************************************************************************)
(* Properties                                                              *)
(***************************************************************************)
\* tweakBodySonic returned with a body installed, which the forwarder has
\* not read or closed yet.
Installed == pc = "done" /\ body.h # 0 /\ closes = 0 /\ sent = Unsent

DerivedKey == derivePromptCacheKey(req)
DerivedMember == [k |-> nPromptCacheKey, v |-> NewString(DerivedKey)]

\* The input as read and the outgoing body, parsed: [ok, root].
InDoc == ParseRoot(inp)
OutDoc == ParseRoot(BodyBytes)

NoneDetected == ~flags.needInstr /\ ~flags.hasPrompt /\ ~flags.hasPrev
\* The scanner's verdict that no instruction rewrite is needed (main.go:301).
NoRewriteNeeded == ~(flags.needInstr /\ ~flags.hasPrev)
OpensWithBrace(bs) == SkipWS(bs, 1) <= Len(bs) /\ bs[SkipWS(bs, 1)] = "{"

CountKey(pairs, k) == Cardinality({i \in 1..Len(pairs) : pairs[i].k = k})
RemoveAt(seq, i) == SubSeq(seq, 1, i - 1) \o SubSeq(seq, i + 1, Len(seq))
IsMissing(m) == ~m.exists \/ TypeSafe(m.v) = "null"

\* C1, as stated: when the scanner detects none of the three keys, the
\* outgoing body is byte for byte the input (nothing injected).
C1_AsStated == (Installed /\ NoneDetected) => BodyBytes = inp

\* C1, amended: when the scanner detects none of the three keys and the body
\* opens (after whitespace) with a brace, the fast splice runs and the
\* outgoing body is not the input: it holds one more member, prompt_cache_key
\* with the derived key, in front of the input's members, which keep their
\* names, value texts and order.
KeyInFront(in, res) ==
  in.ok => res.root.pairs = <<DerivedMember>> \o in.root.pairs
C1_ScannerNegativeInjectsKey ==
  (Installed /\ NoneDetected /\ OpensWithBrace(inp)) =>
    /\ path = "fast"
    /\ BodyBytes # inp
    /\ KeyInFront(InDoc, OutDoc)

HasMembers(in) == in.ok /\ Len(in.root.pairs) >= 1
C1_Witness ==
  /\ Installed /\ NoneDetected /\ OpensWithBrace(inp)
  /\ path = "fast" /\ HasMembers(InDoc)

\* C2: a body that holds a top-level prompt_cache_key with a non-null value
\* leaves tweakBodySonic, on every path, with prompt_cache_key exactly once
\* and with the original value.
KeptOnce(ik, res) ==
  (ik.exists /\ TypeSafe(ik.v) # "null") =>
    /\ CountKey(res.pairs, nPromptCacheKey) = 1
    /\ NodeGet(res, nPromptCacheKey).v = ik.v
C2_ExistingKeyKeptOnce ==
  Installed => KeptOnce(NodeGet(InDoc.root, nPromptCacheKey), OutDoc.root)

\* C3: when the tree rewrite ran on an object whose top-level
\* prompt_cache_key is absent or null, the outgoing document has
\* prompt_cache_key set to the derived key; a non-null value is kept.
KeySetIfMissing(ik, ok) ==
  IF IsMissing(ik) THEN ok = [exists |-> TRUE, v |-> NewString(DerivedKey)]
  ELSE ok = ik
TreeSetsKey(in, res) ==
  in.t = "object" =>
    KeySetIfMissing(NodeGet(in, nPromptCacheKey), NodeGet(res, nPromptCacheKey))
C3_TreeSetsMissingKey ==
  (Installed /\ path = "tree") => TreeSetsKey(InDoc.root, OutDoc.root)

\* C4: when previous_response_id is detected in the body, instructions and
\* input leave as they came, and the outgoing document is the input's, but
\* for a prompt_cache_key member with the derived key added when the key
\* was not detected.
SameButKey(ip, op, dm) ==
  \/ op = ip
  \/ /\ ~flags.hasPrompt
     /\ \E i \in 1..Len(op) : op[i] = dm /\ RemoveAt(op, i) = ip
OnlyKeyAdded(in, res) ==
  /\ NodeGet(res, nInstructions) = NodeGet(in, nInstructions)
  /\ NodeGet(res, nInput) = NodeGet(in, nInput)
  /\ res.elems = in.elems
  /\ SameButKey(in.pairs, res.pairs, DerivedMember)
PriorTurnFrame(in, res) == in.ok => OnlyKeyAdded(in.root, res.root)
InstructionsAndInput(in) ==
  /\ TypeSafe(NodeGet(in, nInstructions).v) = "string"
  /\ NodeGet(in, nInput).exists
  /\ ~NodeGet(in, nPromptCacheKey).exists
InsertedKeepingAll(in, res, fld, i) ==
  /\ in[i] = "{" /\ \A q \in 1..(i - 1) : in[q] # "{"
  /\ res = SubSeq(in, 1, i) \o fld
           \o (IF SkipWS(in, i + 1) <= Len(in) /\ in[SkipWS(in, i + 1)] = "}"
                 THEN <<>> ELSE <<",">>)
           \o SubSeq(in, i + 1, Len(in))

\* C5, as stated: when prompt_cache_key is not detected and no instruction
\* rewrite is needed, the outgoing body is the input with the field
\* inserted after the opening brace and every other byte preserved.
C5_AsStated ==
  (Installed /\ ~flags.hasPrompt /\ NoRewriteNeeded) =>
    \E i \in 1..Len(inp) :
      InsertedKeepingAll(inp, BodyBytes, PromptField(DerivedKey), i)

\* The same, but the whitespace between the braces of an empty object is
\* left out: i is the opening brace, j the next byte that is no whitespace.
InsertedAt(in, res, fld, i, j) ==
  /\ \A q \in 1..(i - 1) : isWS(in[q])
  /\ in[i] = "{" /\ i < j
  /\ \A q \in (i + 1)..(j - 1) : isWS(in[q])
  /\ j > Len(in) \/ ~isWS(in[j])
  /\ res = SubSeq(in, 1, i) \o fld
           \o (IF j <= Len(in) /\ in[j] = "}"
                 THEN SubSeq(in, j, Len(in))
                 ELSE <<",">> \o SubSeq(in, i + 1, Len(in)))

\* C5, amended: the same for the bodies whose first byte that is no
\* whitespace is the opening brace; the bytes before the brace and after it
\* are preserved, but in an empty object the whitespace between the braces
\* is dropped.
C5_FastSplice ==
  (Installed /\ ~flags.hasPrompt /\ NoRewriteNeeded /\ OpensWithBrace(inp)) =>
    \E i \in 1..Len(inp), j \in 2..(Len(inp) + 1) :
      InsertedAt(inp, BodyBytes, PromptField(DerivedKey), i, j)

C5_Witness ==
  /\ Installed /\ ~flags.hasPrompt /\ flags.needInstr /\ flags.hasPrev
  /\ OpensWithBrace(inp) /\ path = "fast" /\ Len(BodyBytes) > Len(inp)

\* C6: with needsInstr false (after the previous_response_id override) and
\* hasPrompt true the body is passed through (main.go:315-317, taken before
\* any parse): the outgoing bytes are the input bytes as read (inflated), in
\* the buffer they were read into.
C6_Passthrough ==
  (Installed /\ NoRewriteNeeded /\ flags.hasPrompt) =>
    /\ path = "pass"
    /\ BodyBytes = inp
    /\ body.n = Len(inp) /\ out = 0

C6_Witness ==
  /\ Installed /\ flags.needInstr /\ flags.hasPrev /\ flags.hasPrompt
  /\ path = "pass" /\ BodyBytes = inp /\ Len(inp) > 2

\* raw is the text of the message {role: <role>, content: <content>}; items
\* are its members.
IsMessageOf(items, role, content) ==
  /\ Len(items) = 2
  /\ {items[1], items[2]} =
       {[k |-> nRole, v |-> Str(role)], [k |-> nContent, v |-> content]}
IsMessage(raw, role, content) ==
  TypeSafe(raw) = "object" /\ IsMessageOf(ObjParse(raw, 1).items, role, content)

\* The rewrite applies to the document in: instructions is a top-level
\* string (and previous_response_id is not detected).
RewriteApplies(in) ==
  /\ ~flags.hasPrev
  /\ in.ok /\ in.root.t = "object"
  /\ TypeSafe(NodeGet(in.root, nInstructions).v) = "string"
TypeOfInput(in) == TypeSafe(NodeGet(in.root, nInput).v)

\* C7: when the instruction rewrite applies and input is an array of N
\* elements, the outgoing input is an array of N+1 elements, the first the
\* developer message with the instructions as content, the others the
\* original elements in their order; instructions is gone.
DevThenOld(new, old, ins) ==
  /\ Len(new) = Len(old) + 1
  /\ IsMessage(new[1], sDeveloper, ins)
  /\ SubSeq(new, 2, Len(new)) = old
ArrayPrepended(in, res) ==
  /\ ~NodeGet(res, nInstructions).exists
  /\ TypeSafe(NodeGet(res, nInput).v) = "array"
  /\ DevThenOld(ArrParse(NodeGet(res, nInput).v, 1).items,
                ArrParse(NodeGet(in, nInput).v, 1).items,
                NodeGet(in, nInstructions).v)
ArrayCase(in, res) ==
  (RewriteApplies(in) /\ TypeOfInput(in) = "array") =>
    ArrayPrepended(in.root, res.root)
C7_ArrayInputPrepended == Installed => ArrayCase(InDoc, OutDoc)

TwoOrMore(in) ==
  /\ RewriteApplies(in) /\ TypeOfInput(in) = "array"
  /\ Len(ArrParse(NodeGet(in.root, nInput).v, 1).items) >= 2
C7_Witness == Installed /\ path = "tree" /\ TwoOrMore(InDoc)

\* C8: when the instruction rewrite applies, an absent or null input
\* becomes [developer], a string U becomes [developer, {role: user,
\* content: U}], a number, boolean or object becomes [developer];
\* instructions is gone and developer.content is the instructions string.
InputIs(new, ty, old, ins) ==
  /\ Len(new) = (IF ty = "string" THEN 2 ELSE 1)
  /\ IsMessage(new[1], sDeveloper, ins)
  /\ ty = "string" => IsMessage(new[2], sUser, old)
InputReplaced(in, res, ty) ==
  /\ ~NodeGet(res, nInstructions).exists
  /\ TypeSafe(NodeGet(res, nInput).v) = "array"
  /\ InputIs(ArrParse(NodeGet(res, nInput).v, 1).items, ty,
             NodeGet(in, nInput).v, NodeGet(in, nInstructions).v)
ScalarCase(in, res) ==
  (RewriteApplies(in) /\ TypeOfInput(in) # "array") =>
    InputReplaced(in.root, res.root, TypeOfInput(in))
C8_InputByType == Installed => ScalarCase(InDoc, OutDoc)

StringInput(in) == RewriteApplies(in) /\ TypeOfInput(in) = "string"
C8_Witness == Installed /\ path = "tree" /\ StringInput(InDoc)

\* C9: what tweakBodySonic made of a body, sent again by the same client,
\* leaves tweakBodySonic as it came.
C9_Idempotent == (Installed /\ pass >= 2) => BodyBytes = prevSent

C9_Witness ==
  /\ Installed /\ pass = 2 /\ path = "tree" /\ flags.needInstr
  /\ BodyBytes = prevSent

\* C10: a buffer taken from bufPool goes back to the pool at most once
\* before it is taken again, however often the forwarder closes the body.
C10_PutAtMostOnce == \A h \in Bufs : puts[h] <= 1

\* How many holders buffer h has: the entries of bufPool, the variables b and
\* out of a running tweakBodySonic, and an installed body not yet closed.
One(cond) == IF cond THEN 1 ELSE 0
Owners(h) ==
  pool[h] + One(b = h) + One(out = h) + One(body.h = h /\ closes = 0)

\* C11: a buffer has at most one owner at any time: bufPool, one running
\* tweakBodySonic, or one outgoing body; no two holders share a buffer.
C11_OneOwner == \A h \in Bufs : Owners(h) <= 1

\* Buffer h's memory is in use: bs and the tree over it alias the input
\* buffer from the read to the return, the output buffer is being written,
\* or the installed body's reader still has bytes to give.
Borrowed(h) ==
  \/ b = h /\ pc \in {"decide", "fast", "encode", "encoded", "encfail"}
  \/ out = h /\ pc \in {"fast", "encoded", "encfail"}
  \/ body.h = h /\ pc = "done" /\ closes = 0

\* C17: no buffer is in bufPool while its memory is borrowed: the input
\* buffer goes back only after the splice copied it or the tree was
\* serialized, the body's buffer only when the forwarder closes the body.
C17_NotPooledWhileBorrowed == \A h \in Bufs : Borrowed(h) => pool[h] = 0

\* The buffers bufPool.Get handed out so far.
Acquired == 1..created
\* Buffer h is the installed body's, which the forwarder has not closed.
Held(h) == pc = "done" /\ body.h = h /\ closes = 0
EveryBufferAccounted ==
  pc = "done" => \A h \in Acquired : pool[h] >= 1 \/ body.h = h

\* C18: when tweakBodySonic has returned, every buffer it took from bufPool
\* was passed to putBuf or is the installed body's; and, the forwarder
\* closing the body, every buffer taken is passed to putBuf in the end.
C18_NoLeak ==
  /\ []EveryBufferAccounted
  /\ \A h \in Bufs : Held(h) ~> (pool[h] >= 1)

C18_Witness ==
  /\ pc = "done" /\ path = "tree" /\ closes = 1 /\ created = 2
  /\ \A h \in Acquired : pool[h] = 1

\* tweakBodySonic returned after it read the body in full.
ReturnedAfterRead == pc = "done" /\ path \notin {"none", "nilbody", "readfail"}
NoGzipFraming(bs) == \A i \in 1..Len(bs) : bs[i] \notin {"GZ", "TR"}
LengthIs(n) == req.clHeader = n /\ req.contentLength = n

\* C12: a request sent with Content-Encoding: gzip whose body inflates in
\* full goes out without Content-Encoding, with the inflated text (rewritten
\* or as it was) as body and Content-Length its exact length; the header is
\* removed in no other case.
C12_GzipDecoded ==
  /\ (Installed /\ recv.ce = "gzip") =>
       /\ req.ce = ""
       /\ wire.data = Gzip(inp)
       /\ NoGzipFraming(BodyBytes)
       /\ path \in {"pass", "parsefail", "encfail"} => BodyBytes = inp
       /\ LengthIs(Len(BodyBytes))
  /\ req.ce # recv.ce =>
       /\ recv.ce = "gzip" /\ req.ce = ""
       /\ pc # "start" /\ path # "readfail"
       /\ wire.data = Gzip(inp)

C12_Witness == Installed /\ recv.ce = "gzip" /\ path = "tree" /\ BodyBytes # inp

\* C13: on every return after a successful read a body is installed,
\* the Content-Length header and the ContentLength field are the number of
\* bytes that body yields, and Transfer-Encoding is cleared in header and
\* field.
C13_LengthMatchesBody ==
  ReturnedAfterRead =>
    /\ body.h # 0
    /\ LengthIs(body.n)
    /\ ~req.teHeader /\ ~req.transferEncoding
    /\ closes = 0 => Len(BodyBytes) = body.n
    /\ sent # Unsent => Len(sent) = body.n

C13_Witness ==
  /\ ReturnedAfterRead /\ path = "encfail" /\ recv.teHeader
  /\ sent # Unsent /\ Len(sent) > 0

\* C14: when the parse fails or Encode fails, the outgoing body is the input
\* buffer with the bytes as read: the buffer was not passed to putBuf, and
\* the output buffer taken for Encode is back in the pool.
C14_FallbackKeepsInput ==
  (Installed /\ path \in {"parsefail", "encfail"}) =>
    /\ BodyBytes = inp /\ body.n = Len(inp)
    /\ puts[body.h] = 0 /\ pool[body.h] = 0
    /\ \A h \in Acquired : h # body.h => pool[h] = 1
    /\ path = "encfail" => created >= 2

C14_Witness == Installed /\ path = "encfail" /\ Len(inp) > 1 /\ pass = 1

\* C15: when the read of the body fails (transport error, gzip header or
\* gzip stream), the input buffer was passed to putBuf once, the inbound body
\* is closed, no body is installed and the request's headers and length
\* fields are as received.
C15_ReadFailureLeavesRequest ==
  (pc = "done" /\ path = "readfail") =>
    /\ \A h \in Acquired : puts[h] = 1 /\ pool[h] = 1
    /\ created = 1
    /\ origClosed
    /\ body = NoBody
    /\ req = recv

C15_Witness ==
  /\ pc = "done" /\ path = "readfail"
  /\ recv.ce = "gzip" /\ GzipInitOk(wire) /\ recv.teHeader

\* The identity source derivePromptCacheKey is to use: the first non-empty
\* of Authorization, x-api-key, api-key; else RemoteAddr and User-Agent.
SourceOf(r) ==
  IF r.auth # <<>> THEN <<"Authorization", r.auth>>
  ELSE IF r.xapi # <<>> THEN <<"x-api-key", r.xapi>>
  ELSE IF r.apikey # <<>> THEN <<"api-key", r.apikey>>
  ELSE <<"RemoteAddr|User-Agent", r.remote, r.ua>>

\* The key put into the outgoing body is the key of every request with the
\* same source, whatever its other identity headers are.
KeyOfSource(v) ==
  \A r2 \in Identities :
    SourceOf(r2) = SourceOf(recv) => v = NewString(derivePromptCacheKey(r2))
\* tweakBodySonic put a prompt_cache_key where the input had none.
KeyAddedTo(in, res) ==
  /\ in.ok /\ res.ok
  /\ IsMissing(NodeGet(in.root, nPromptCacheKey))
  /\ NodeGet(res.root, nPromptCacheKey).exists
KeyAdded ==
  /\ Installed /\ path \in {"fast", "tree"} /\ ~flags.hasPrompt
  /\ KeyAddedTo(InDoc, OutDoc)

\* C16: the derived key depends on the first non-empty identity source alone
\* (Authorization, x-api-key, api-key, RemoteAddr|User-Agent): requests that
\* agree on it get the same key whatever body and lower-priority headers
\* they have.
C16_KeyFromFirstSource ==
  KeyAdded => KeyOfSource(NodeGet(OutDoc.root, nPromptCacheKey).v)

C16_Witness ==
  /\ KeyAdded /\ path = "tree"
  /\ recv.auth = <<>> /\ recv.xapi = <<"Y">> /\ recv.apikey = <<"K">>
  /\ KeyOfSource(NodeGet(OutDoc.root, nPromptCacheKey).v)

\* Some occurrence of k in bs is followed, after whitespace only, by ':'.
ColonAfter(bs, from) ==
  \E j \in from..Len(bs) :
    bs[j] = ":" /\ \A m \in from..(j - 1) : isWS(bs[m])
Qualifies(bs, k) ==
  \E i \in 1..(Len(bs) - Len(k) + 1) :
    SubSeq(bs, i, i + Len(k) - 1) = k /\ ColonAfter(bs, i + Len(k))
Answer(yes) == IF yes THEN "true" ELSE "false"

\* C19, as stated: for every text and every key, hasJSONKey returns true
\* exactly when some occurrence of the key is followed, after whitespace
\* only, by ':'.
C19_AsStated == scan.done => scan.res = Answer(Qualifies(scan.bs, scan.key))

\* C19, amended: the same for every key that is not empty; occurrences that
\* are not followed by ':' (at the end of the text too) do not end the
\* search, and a later one that overlaps them is found.
C19_ScanFindsKey ==
  (scan.done /\ scan.key # <<>>) =>
    scan.res = Answer(Qualifies(scan.bs, scan.key))

C19_Witness ==
  /\ scan.done /\ scan.key = <<"a", "a">> /\ scan.bs = <<"a", "a", "a", ":">>
  /\ scan.res = "true"

\* The document has no top-level instructions string: the member is absent
\* (the document may be no object at all) or has another type.
NoInstructionsString(in) ==
  /\ in.ok
  /\ ~(/\ NodeGet(in.root, nInstructions).exists
       /\ TypeSafe(NodeGet(in.root, nInstructions).v) = "string")
GuardFrame(in, res) ==
  NoInstructionsString(in) =>
    /\ res.ok /\ res.root.t = in.root.t
    /\ OnlyKeyAdded(in.root, res.root)

\* C20: when the scanner detects "instructions" and no previous_response_id
\* but the document has no top-level instructions string, instructions and
\* input leave as they came and no developer message is made; at most
\* prompt_cache_key is added, when it was not detected.
C20_NonStringInstructionsKept ==
  (Installed /\ flags.needInstr /\ ~flags.hasPrev) => GuardFrame(InDoc, OutDoc)

C20_Witness ==
  /\ Installed /\ flags.needInstr /\ ~flags.hasPrev /\ path = "tree"
  /\ NoInstructionsString(InDoc)
  /\ TypeSafe(NodeGet(InDoc.root, nInstructions).v) = "array"
  /\ NodeGet(InDoc.root, nInput).exists

====
